---- MODULE Spec2Model ----
(***************************************************************************)
(* A model of two scripts of the repository:                               *)
(*   - totp-tool.py: main, print_code and the two terminal QR renderers    *)
(*     draw_token_manual (two modules per character cell) and              *)
(*     draw_token_manual_2x (one module per two character cells);          *)
(*   - telstra_messaging_api_conversations.py: the stopwatch handler       *)
(*     handle_message and its module-level state.                          *)
(* A printed line is a sequence of character cells (the renderers) or of   *)
(* text fragments (main, print_code); stdout is the sequence of lines.     *)
(***************************************************************************)
EXTENDS Integers, Sequences, FiniteSets, TLC

\* ------------------------------------------------------------- bounds
\* Largest number of rows of a matrix handed to a renderer.
MaxRows == 3
\* Largest length of a matrix row.
MaxCols == 2
\* Number of seconds the clock may advance during one run.
MaxTicks == 1
\* Wall-clock second at which a run starts.
StartTime == 100
\* Number of SMS messages the stopwatch handles in one run.
MaxMsgs == 3

\* ------------------------------------------------------------- glyphs
\* The four characters of the renderers: U+2588, U+2580, U+2584 and the space.
FULL == "FULL_BLOCK"
UPPER == "UPPER_HALF_BLOCK"
LOWER == "LOWER_HALF_BLOCK"
SPACE == " "

\* Python's None, for the values that are either None or a time.
None == -1

\* A module of a QR matrix: pyqrcode's code holds 1 for dark and 0 for light.
Cell == {0, 1}

\* s * n for a one-character string s (or [s] * n): n copies of s.
Repeat(s, n) == [i \in 1..n |-> s]

\* Sequences over S of length lo..hi.
SeqsOf(S, lo, hi) == UNION {[1..n -> S] : n \in lo..hi}

\* The matrices a renderer is called with directly: any list of lists of
\* modules, the empty list and lists with rows of differing lengths included.
Matrices == SeqsOf(SeqsOf(Cell, 0, MaxCols), 0, MaxRows)

\* The matrices pyqrcode.create returns: square, of side at least 1.
MinSide == IF MaxRows < MaxCols THEN MaxRows ELSE MaxCols
SquareMatrices == UNION {[1..n -> [1..n -> Cell]] : n \in 1..MinSide}

VARIABLES
    entry,            \* the function the run calls: main or one renderer
    args,             \* argparse.Namespace given to main
    pc,               \* position of the run
    ret,              \* return value of the entry function, or the exception raised
    out,              \* lines printed to stdout
    stderr,           \* lines written to stderr
    now,              \* datetime.now(), in seconds
    totp_key,         \* main's totp_key
    qrc,              \* qrc.code, the matrix
    quiet_zone,       \* the renderers' quiet_zone
    print_this_row,   \* draw_token_manual's print_this_row
    row_buffer,       \* draw_token_manual's row_buffer
    idx,              \* index (from 1) of the next row of the for loop
    STOPWATCH_START,
    STOPWATCH_END,
    sent,             \* requests made by send_sms, in order
    msg,              \* the message handle_message last received
    crashed           \* an exception left the stopwatch's main loop

mainVars == <<entry, args, pc, ret, stderr, totp_key, qrc, quiet_zone,
              print_this_row, row_buffer, idx>>
totpVars == <<mainVars, out>>
swVars == <<STOPWATCH_START, STOPWATCH_END, sent, msg, crashed>>
vars == <<totpVars, swVars, now>>

\* ---------------------------------------------------- totp-tool.py
\* Mutant of Cell2x: the two strings of the list exchanged.
Cell2xDarkFull(c) == IF c = 0 THEN <<SPACE, SPACE>> ELSE <<FULL, FULL>>

\* ['██', '  '][_]: the two cells printed for a module.
Cell2x(c) == IF c = 0 THEN <<FULL, FULL>> ELSE <<SPACE, SPACE>>

\* ''.join(['██', '  '][_] for _ in row)
Join2x(row) == [i \in 1..(2 * Len(row)) |-> Cell2x(row[(i + 1) \div 2])[2 - (i % 2)]]

\* Mutant of Line2x: a border of two cells on each side.
Line2xNarrow(row) == Repeat(FULL, 2) \o Join2x(row) \o Repeat(FULL, 2)

\* The line draw_token_manual_2x prints for a row, line 72.
Line2x(row) == Repeat(FULL, 4) \o Join2x(row) \o Repeat(FULL, 4)

\* draw_token_manual_2x's quiet_zone, line 66.
QuietZone2x(code) == Repeat(FULL, 2 * (4 + Len(code[1])))

\* The lines draw_token_manual_2x prints before the rows, lines 68-70.
Head2x(qz) == <<<<>>, qz, qz>>

\* The lines draw_token_manual_2x prints after the rows, lines 74-76.
Tail2x(qz) == <<qz, qz, <<>>>>

\* Mutant of MarkCell: the two half blocks exchanged.
MarkCellSwapped(ptr, old) ==
    IF ~ptr THEN UPPER
    ELSE IF old = UPPER THEN SPACE
    ELSE LOWER

\* The new content of row_buffer[i] for a dark module, lines 94-99.
MarkCell(ptr, old) ==
    IF ~ptr THEN LOWER
    ELSE IF old = LOWER THEN SPACE
    ELSE UPPER

\* The inner for loop raises IndexError at a dark module beyond row_buffer.
RowRaises(buf, row) == \E i \in 1..Len(row) : row[i] # 0 /\ i > Len(buf)

\* row_buffer after the inner for loop over row (light modules are skipped).
MarkRow(buf, row, ptr) ==
    [i \in 1..Len(buf) |->
        IF i <= Len(row) /\ row[i] # 0 THEN MarkCell(ptr, buf[i]) ELSE buf[i]]

\* '██' + ''.join(row_buffer) + '██'
LineManual(buf) == Repeat(FULL, 2) \o buf \o Repeat(FULL, 2)

\* draw_token_manual's quiet_zone, line 82.
QuietZoneManual(code) == Repeat(FULL, 4 + Len(code[1]))

\* A row_buffer of solid blocks, lines 84 and 103.
FreshBuffer(code) == Repeat(FULL, Len(code[1]))

\* Mutant of ManualHead: the quiet zone printed twice, as draw_token_manual_2x does.
ManualHeadTwice(qz) == <<<<>>, qz, qz>>

\* The lines draw_token_manual prints before the rows, lines 86-87.
ManualHead(qz) == <<<<>>, qz>>

\* Mutant of ManualTail: the unpaired last row is dropped.
ManualTailDropsOddRow(ptr, buf, qz) == <<qz, <<>>>>

\* The lines draw_token_manual prints after the rows, lines 107-112.
ManualTail(ptr, buf, qz) ==
    (IF ptr THEN <<LineManual(buf)>> ELSE <<>>) \o <<qz, <<>>>>

\* dt.strftime("%H:%M:%S")
Pad2(n) == IF n < 10 THEN "0" \o ToString(n) ELSE ToString(n)
Strftime(dt) ==
    <<Pad2((dt \div 3600) % 24), ":", Pad2((dt \div 60) % 60), ":", Pad2(dt % 60)>>

\* totp.at(dt): the HOTP value of the key and the 30-second time step, kept
\* symbolic (the HMAC is pyotp's).
TotpAt(key, dt) == <<"HOTP", key, ToString(dt \div 30)>>

\* The line print_code prints for the instant dt.
CodeLine(key, dt) ==
    <<"At ">> \o Strftime(dt) \o <<", the check code is: ">> \o TotpAt(key, dt)

\* "Using the TOTP seed: %s" % totp_key
SeedLine(key) == <<"Using the TOTP seed: ", key>>

\* Keys: a token is absent (falsy), valid base32, or not base32 at all, in
\* which case pyotp raises when the first code is computed.
NoToken == ""
ValidKeys == {"GEZDGNBVGY3TQOJQ"}
BadKeys == {"not base32!"}
RandomKeys == {"JBSWY3DPEHPK3PXP"}
Tokens == {NoToken} \cup ValidKeys \cup BadKeys

Namespaces ==
    [new : BOOLEAN, token : Tokens, extra_codes : BOOLEAN,
     draw : BOOLEAN, upscale : BOOLEAN]
NoArgs ==
    [new |-> FALSE, token |-> NoToken, extra_codes |-> FALSE,
     draw |-> FALSE, upscale |-> FALSE]

InitStopwatch ==
    /\ STOPWATCH_START = None
    /\ STOPWATCH_END = None
    /\ sent = <<>>
    /\ msg = [message |-> "", senderAddress |-> ""]
    /\ crashed = FALSE

InitLocals ==
    /\ pc = "start"
    /\ ret = "running"
    /\ out = <<>>
    /\ stderr = <<>>
    /\ totp_key = NoToken
    /\ quiet_zone = <<>>
    /\ print_this_row = FALSE
    /\ row_buffer = <<>>
    /\ idx = 1

InitTotp ==
    /\ \/ entry = "main" /\ args \in Namespaces /\ qrc = <<>>
       \/ entry \in {"draw_token_manual", "draw_token_manual_2x"}
          /\ args = NoArgs /\ qrc \in Matrices
    /\ InitLocals
    /\ now = StartTime
    /\ InitStopwatch

\* datetime.now() advances between two steps of main up to its last
\* print_code call, the only reader of the clock.
Tick ==
    /\ entry = "main" /\ pc \in {"start", "L144", "L145", "L146", "L148", "L149"}
    /\ now < StartTime + MaxTicks
    /\ now' = now + 1

\* The value the entry function returns when a renderer returns.
Returned == IF entry = "main" THEN "0" ELSE "None"

\* main, lines 128-141: the argument checks, the key and the seed line.
MainStart ==
    /\ entry = "main" /\ pc = "start"
    /\ IF args.new /\ args.token # NoToken
       THEN /\ stderr' = Append(stderr, "Either specify a token or use --new/-n, but not both")
            /\ pc' = "done" /\ ret' = "1"
            /\ UNCHANGED <<out, totp_key>>
       ELSE IF ~args.new /\ args.token = NoToken
       THEN /\ stderr' = Append(stderr, "No arguments provided. Call with --help for operating instructions")
            /\ pc' = "done" /\ ret' = "1"
            /\ UNCHANGED <<out, totp_key>>
       ELSE /\ \E k \in (IF args.new THEN RandomKeys ELSE {args.token}) :
                /\ totp_key' = k
                /\ out' = Append(out, SeedLine(k))
            /\ pc' = IF args.extra_codes THEN "L144" ELSE "L146"
            /\ UNCHANGED <<stderr, ret>>
    /\ UNCHANGED <<entry, args, qrc, quiet_zone, print_this_row, row_buffer, idx, now>>

\* The time_delta of the print_code call at a line of main.
TimeDelta(l) ==
    CASE l = "L144" -> -60
      [] l = "L145" -> -30
      [] l = "L146" -> 0
      [] l = "L148" -> 30
      [] l = "L149" -> 60

\* Mutant of AfterCall: the two later codes are printed in the other order.
AfterCallSwapped(l, extra) ==
    CASE l = "L144" -> "L145"
      [] l = "L145" -> "L146"
      [] l = "L146" -> IF extra THEN "L149" ELSE "L151"
      [] l = "L149" -> "L148"
      [] l = "L148" -> "L151"

\* The line of main reached after the print_code call at line l.
AfterCall(l, extra) ==
    CASE l = "L144" -> "L145"
      [] l = "L145" -> "L146"
      [] l = "L146" -> IF extra THEN "L148" ELSE "L151"
      [] l = "L148" -> "L149"
      [] l = "L149" -> "L151"

\* One call of print_code from main, lines 143-149 and 115-124.
PrintCode ==
    /\ entry = "main" /\ pc \in {"L144", "L145", "L146", "L148", "L149"}
    /\ IF totp_key \in BadKeys
       THEN /\ pc' = "raised" /\ ret' = "binascii.Error"
            /\ UNCHANGED out
       ELSE /\ out' = Append(out, CodeLine(totp_key, now + TimeDelta(pc)))
            /\ pc' = AfterCall(pc, args.extra_codes)
            /\ UNCHANGED ret
    /\ UNCHANGED <<entry, args, stderr, totp_key, qrc, quiet_zone,
                   print_this_row, row_buffer, idx, now>>

\* main, lines 151-159: the QR code is built and a renderer chosen, or main returns.
MainDraw ==
    /\ entry = "main" /\ pc = "L151"
    /\ IF args.draw
       THEN /\ qrc' \in SquareMatrices
            /\ pc' = IF args.upscale THEN "2x" ELSE "manual"
            /\ UNCHANGED ret
       ELSE /\ pc' = "done" /\ ret' = "0"
            /\ UNCHANGED qrc
    /\ UNCHANGED <<entry, args, out, stderr, totp_key, quiet_zone,
                   print_this_row, row_buffer, idx, now>>

\* draw_token_manual_2x, lines 66-70.
Draw2xBegin ==
    /\ \/ entry = "draw_token_manual_2x" /\ pc = "start"
       \/ entry = "main" /\ pc = "2x"
    /\ IF qrc = <<>>
       THEN /\ pc' = "raised" /\ ret' = "IndexError"
            /\ UNCHANGED <<out, quiet_zone>>
       ELSE LET qz == QuietZone2x(qrc) IN
            /\ quiet_zone' = qz
            /\ out' = out \o Head2x(qz)
            /\ pc' = "2x_rows"
            /\ UNCHANGED ret
    /\ idx' = 1
    /\ UNCHANGED <<entry, args, stderr, totp_key, qrc, print_this_row, row_buffer, now>>

\* draw_token_manual_2x, lines 71-72: one iteration of the for loop.
Draw2xRow ==
    /\ pc = "2x_rows" /\ idx <= Len(qrc)
    /\ out' = Append(out, Line2x(qrc[idx]))
    /\ idx' = idx + 1
    /\ UNCHANGED <<entry, args, pc, ret, stderr, totp_key, qrc, quiet_zone,
                   print_this_row, row_buffer, now>>

\* draw_token_manual_2x, lines 74-76.
Draw2xEnd ==
    /\ pc = "2x_rows" /\ idx > Len(qrc)
    /\ out' = out \o Tail2x(quiet_zone)
    /\ pc' = "done" /\ ret' = Returned
    /\ UNCHANGED <<entry, args, stderr, totp_key, qrc, quiet_zone,
                   print_this_row, row_buffer, idx, now>>

\* draw_token_manual, lines 82-87.
DrawManualBegin ==
    /\ \/ entry = "draw_token_manual" /\ pc = "start"
       \/ entry = "main" /\ pc = "manual"
    /\ IF qrc = <<>>
       THEN /\ pc' = "raised" /\ ret' = "IndexError"
            /\ UNCHANGED <<out, quiet_zone, row_buffer>>
       ELSE LET qz == QuietZoneManual(qrc) IN
            /\ quiet_zone' = qz
            /\ row_buffer' = FreshBuffer(qrc)
            /\ out' = out \o ManualHead(qz)
            /\ pc' = "manual_rows"
            /\ UNCHANGED ret
    /\ print_this_row' = FALSE
    /\ idx' = 1
    /\ UNCHANGED <<entry, args, stderr, totp_key, qrc, now>>

\* draw_token_manual, lines 88-105: one iteration of the outer for loop.
DrawManualRow ==
    /\ pc = "manual_rows" /\ idx <= Len(qrc)
    /\ LET buf == MarkRow(row_buffer, qrc[idx], print_this_row) IN
       IF RowRaises(row_buffer, qrc[idx])
       THEN /\ pc' = "raised" /\ ret' = "IndexError"
            /\ row_buffer' = buf
            /\ UNCHANGED <<out, print_this_row, idx>>
       ELSE /\ IF print_this_row
               THEN /\ out' = Append(out, LineManual(buf))
                    /\ row_buffer' = FreshBuffer(qrc)
               ELSE /\ row_buffer' = buf
                    /\ UNCHANGED out
            /\ print_this_row' = ~print_this_row
            /\ idx' = idx + 1
            /\ UNCHANGED <<pc, ret>>
    /\ UNCHANGED <<entry, args, stderr, totp_key, qrc, quiet_zone, now>>

\* draw_token_manual, lines 107-112.
DrawManualEnd ==
    /\ pc = "manual_rows" /\ idx > Len(qrc)
    /\ out' = out \o ManualTail(print_this_row, row_buffer, quiet_zone)
    /\ pc' = "done" /\ ret' = Returned
    /\ UNCHANGED <<entry, args, stderr, totp_key, qrc, quiet_zone,
                   print_this_row, row_buffer, idx, now>>

NextTotp ==
    \/ MainStart /\ UNCHANGED swVars
    \/ PrintCode /\ UNCHANGED swVars
    \/ MainDraw /\ UNCHANGED swVars
    \/ Draw2xBegin /\ UNCHANGED swVars
    \/ Draw2xRow /\ UNCHANGED swVars
    \/ Draw2xEnd /\ UNCHANGED swVars
    \/ DrawManualBegin /\ UNCHANGED swVars
    \/ DrawManualRow /\ UNCHANGED swVars
    \/ DrawManualEnd /\ UNCHANGED swVars
    \/ Tick /\ UNCHANGED <<totpVars, swVars>>

SpecTotp == InitTotp /\ [][NextTotp]_vars

\* --------------------------- telstra_messaging_api_conversations.py
Senders == {"+61400000001", "+61400000002"}
Texts == {"START", "STOP", "TIME", "HELLO"}
\* A message get_sms returned with a status other than EMPTY.
Messages == [message : Texts, senderAddress : Senders]
\* The status of the response to send_sms's request; any other than 201 raises.
Statuses == {"201", "500"}

\* The line handle_message prints for a message, line 114.
ReceivedLine(m, t) == <<"At ", ToString(t), " I received \"", m.message, "\"!">>

\* str(a - b) for two datetimes.
StrDelta(a, b) == ToString(a - b)

\* STOPWATCH_START after handle_message(m), lines 116-117.
StartAfter(m, start, t) == IF m.message = "START" THEN t ELSE start

\* Mutant of EndAfter: STOP records the end without the two checks.
EndAfterUnchecked(m, start, end, t) ==
    IF m.message = "START" THEN None
    ELSE IF m.message = "STOP" THEN t
    ELSE end

\* STOPWATCH_END after handle_message(m), lines 118 and 122-128. A datetime
\* is always truthy, so "not STOPWATCH_START" tests for None.
EndAfter(m, start, end, t) ==
    IF m.message = "START" THEN None
    ELSE IF m.message = "STOP" /\ start # None /\ end = None THEN t
    ELSE end

\* The body of the SMS handle_message(m) sends, lines 116-140.
ReplyBody(m, start, end, t) ==
    IF m.message = "START" THEN <<"The timer has been reset and is running!">>
    ELSE IF m.message = "STOP" THEN
        IF start = None THEN <<"The timer wasn't running! Say \"START\" first.">>
        ELSE IF end # None THEN <<"The timer is already stopped! Say \"START\" to reset.">>
        ELSE <<"The timer ran for ", StrDelta(t, start)>>
    ELSE IF m.message = "TIME" THEN
        IF start = None THEN <<"The timer isn't running! Say \"START\" first.">>
        ELSE IF end # None THEN <<"The timer ran for ", StrDelta(end, start)>>
        ELSE <<"The timer is still going and is currently at ", StrDelta(t, start)>>
    ELSE <<"Sorry! I only understand \"START\", \"STOP\" and \"TIME\" exactly.">>

\* Mutant of SendSms: the reply goes to the number main announces itself to.
SendSmsToOperator(to, body, status) ==
    <<[to |-> "+61400000000", body |-> body, status |-> status]>>

\* The requests send_sms(token, to, body) makes: one POST to messages/sms.
SendSms(to, body, status) == <<[to |-> to, body |-> body, status |-> status]>>

\* handle_message(token, m), lines 111-140. The globals are assigned before
\* send_sms is called; a response other than 201 makes send_sms raise
\* RuntimeError, which nothing on the way up to main catches.
HandleMessage ==
    /\ ~crashed
    /\ Len(out) < MaxMsgs
    /\ \E m \in Messages, status \in Statuses :
        /\ msg' = m
        /\ out' = Append(out, ReceivedLine(m, now))
        /\ STOPWATCH_START' = StartAfter(m, STOPWATCH_START, now)
        /\ STOPWATCH_END' = EndAfter(m, STOPWATCH_START, STOPWATCH_END, now)
        /\ sent' = sent \o SendSms(m.senderAddress,
                                   ReplyBody(m, STOPWATCH_START, STOPWATCH_END, now),
                                   status)
        /\ crashed' = (status # "201")
    /\ UNCHANGED <<mainVars, now>>

\* Time passes between two messages (main's sleep(1) and the polling).
Elapse ==
    /\ ~crashed
    /\ now < StartTime + MaxTicks
    /\ now' = now + 1
    /\ UNCHANGED <<totpVars, swVars>>

InitStopwatchRun ==
    /\ entry = "stopwatch" /\ args = NoArgs /\ qrc = <<>>
    /\ InitLocals
    /\ now = StartTime
    /\ InitStopwatch

NextStopwatch ==
    \/ HandleMessage
    \/ Elapse

SpecStopwatch == InitStopwatchRun /\ [][NextStopwatch]_vars

\* ------------------------------------------------------------ claims
\* The lines main prints before it calls a renderer.
Preamble == IF entry = "main" THEN (IF args.extra_codes THEN 6 ELSE 2) ELSE 0

\* The lines a renderer has printed so far.
Rendered == SubSeq(out, Preamble + 1, Len(out))

\* draw_token_manual was called and has returned.
ManualReturned ==
    /\ pc = "done" /\ ret = Returned
    /\ \/ entry = "draw_token_manual"
       \/ entry = "main" /\ args.draw /\ ~args.upscale

\* draw_token_manual_2x was called and has returned.
Returned2x ==
    /\ pc = "done" /\ ret = Returned
    /\ \/ entry = "draw_token_manual_2x"
       \/ entry = "main" /\ args.draw /\ args.upscale

\* A renderer was called directly and has returned or raised.
RendererEnded ==
    /\ entry \in {"draw_token_manual", "draw_token_manual_2x"}
    /\ pc \in {"done", "raised"}

Square(m) == Len(m) >= 1 /\ \A r \in 1..Len(m) : Len(m[r]) = Len(m)
Ragged(m) == \E r \in 1..Len(m) : Len(m[r]) # Len(m[1])
Min(a, b) == IF a < b THEN a ELSE b
CeilHalf(n) == (n + 1) \div 2

\* The glyph of a cell holding the modules top and bottom, as the code draws
\* it: a half of the cell is filled where its module is light.
HalfGlyph(top, bottom) ==
    CASE top = 0 /\ bottom = 0 -> FULL
      [] top = 1 /\ bottom = 0 -> LOWER
      [] top = 0 /\ bottom = 1 -> UPPER
      [] top = 1 /\ bottom = 1 -> SPACE

\* The glyph of a cell as claim C1 states it.
ClaimedHalfGlyph(top, bottom) ==
    CASE top = 0 /\ bottom = 0 -> FULL
      [] top = 1 /\ bottom = 0 -> UPPER
      [] top = 0 /\ bottom = 1 -> LOWER
      [] top = 1 /\ bottom = 1 -> SPACE

\* The columns of the k-th pair of rows that hold a module in both rows.
PairColumns(k) ==
    1..Min(Len(qrc[1]), Min(Len(qrc[2 * k - 1]), Len(qrc[2 * k])))

\* C1, as amended: when draw_token_manual returns, the cell of every pair of
\* vertically adjacent modules (rows 2k-1 and 2k, same column) is a solid
\* block when both are light, a LOWER half block when the top is dark and the
\* bottom light, an UPPER half block when the top is light and the bottom
\* dark, and a space when both are dark.
C1_HalfGlyphs ==
    ManualReturned =>
        \A k \in 1..(Len(qrc) \div 2) : \A c \in PairColumns(k) :
            Rendered[2 + k][2 + c] = HalfGlyph(qrc[2 * k - 1][c], qrc[2 * k][c])

\* C1, as claimed: upper half block for top dark and bottom light, lower half
\* block for top light and bottom dark.
C1_AsClaimed ==
    ManualReturned =>
        \A k \in 1..(Len(qrc) \div 2) : \A c \in PairColumns(k) :
            Rendered[2 + k][2 + c] = ClaimedHalfGlyph(qrc[2 * k - 1][c], qrc[2 * k][c])

\* C1's case: a returned rendering of a pair of rows holding a dark module
\* above a light one and a light module above a dark one.
C1_Witness ==
    /\ ManualReturned /\ Len(qrc) >= 2
    /\ \E c, d \in PairColumns(1) :
        /\ qrc[1][c] = 1 /\ qrc[2][c] = 0
        /\ qrc[1][d] = 0 /\ qrc[2][d] = 1

\* C2, as amended: when draw_token_manual_2x returns, the line of every row
\* holds, in column order between the two borders of four solid blocks, two
\* SPACES for a dark module and two solid BLOCKS for a light one.
C2_FullGlyphs ==
    Returned2x =>
        \A r \in 1..Len(qrc) : \A c \in 1..Len(qrc[r]) :
            LET pair == IF qrc[r][c] = 1 THEN <<SPACE, SPACE>> ELSE <<FULL, FULL>> IN
            SubSeq(Rendered[3 + r], 4 + 2 * c - 1, 4 + 2 * c) = pair

\* C2, as claimed: two solid blocks for a dark module, two spaces for a light one.
C2_AsClaimed ==
    Returned2x =>
        \A r \in 1..Len(qrc) : \A c \in 1..Len(qrc[r]) :
            LET pair == IF qrc[r][c] = 1 THEN <<FULL, FULL>> ELSE <<SPACE, SPACE>> IN
            SubSeq(Rendered[3 + r], 4 + 2 * c - 1, 4 + 2 * c) = pair

\* C2's case: a returned rendering of a matrix with a dark and a light module.
C2_Witness ==
    /\ Returned2x
    /\ \E r \in 1..Len(qrc) : \E c, d \in 1..Len(qrc[r]) :
        qrc[r][c] = 1 /\ qrc[r][d] = 0

\* C3, as amended: when draw_token_manual returns for a matrix of n >= 1 rows
\* it has printed ceil(n/2) + 4 lines: an empty line, one solid border line,
\* ceil(n/2) data lines, one solid border line, an empty line.
C3_HalfLineCount ==
    ManualReturned =>
        LET n == Len(qrc)
            border == Repeat(FULL, 4 + Len(qrc[1]))
        IN  /\ Len(Rendered) = CeilHalf(n) + 4
            /\ Rendered[1] = <<>>
            /\ Rendered[2] = border
            /\ \A k \in 1..CeilHalf(n) : Len(Rendered[2 + k]) = 4 + Len(qrc[1])
            /\ Rendered[CeilHalf(n) + 3] = border
            /\ Rendered[CeilHalf(n) + 4] = <<>>

\* C3, as claimed: exactly ceil(n/2) + 2 lines for a square matrix of side n.
C3_AsClaimed ==
    (ManualReturned /\ Square(qrc)) => Len(Rendered) = CeilHalf(Len(qrc)) + 2

\* C3's case: a returned rendering of a square matrix of odd side, whose
\* last row has no partner.
C3_Witness == ManualReturned /\ Square(qrc) /\ Len(qrc) % 2 = 1

\* C4, as amended: when draw_token_manual_2x returns for a matrix of n rows
\* it has printed n + 6 lines (an empty line, 2 border lines, n data lines, 2
\* border lines, an empty line), and the data line of a row of w modules is
\* 2w + 8 cells wide (2n + 8 for a square matrix).
C4_FullSize ==
    Returned2x =>
        LET n == Len(qrc)
            border == Repeat(FULL, 2 * Len(qrc[1]) + 8)
        IN  /\ Len(Rendered) = n + 6
            /\ Rendered[1] = <<>>
            /\ Rendered[2] = border /\ Rendered[3] = border
            /\ \A r \in 1..n : Len(Rendered[3 + r]) = 2 * Len(qrc[r]) + 8
            /\ Rendered[n + 4] = border /\ Rendered[n + 5] = border
            /\ Rendered[n + 6] = <<>>

\* C4, as claimed: n + 4 lines, the n data lines (after the two border lines)
\* each 2n + 4 cells wide.
C4_AsClaimed ==
    (Returned2x /\ Square(qrc)) =>
        LET n == Len(qrc) IN
        /\ Len(Rendered) = n + 4
        /\ \A r \in 1..n : Len(Rendered[2 + r]) = 2 * n + 4

\* C4's case: a returned rendering of a square matrix of side 2.
C4_Witness == Returned2x /\ Square(qrc) /\ Len(qrc) = 2

\* C5, as claimed: for a matrix with zero rows both renderers complete
\* without error and print only border lines.
C5_EmptyMatrixRendersBorder ==
    (RendererEnded /\ qrc = <<>>) =>
        /\ pc = "done"
        /\ Len(out) >= 2
        /\ \A i \in 1..Len(out) : \A j \in 1..Len(out[i]) : out[i][j] = FULL

\* C6, as claimed: a matrix with a row whose length differs from the first
\* row's is rejected with an error, and no line is ever printed for it.
C6_RaggedRejected ==
    (entry \in {"draw_token_manual", "draw_token_manual_2x"} /\ Ragged(qrc)) =>
        /\ out = <<>>
        /\ pc # "done"

\* C8: in draw_token_manual, after p rows have been consumed, p \div 2 data
\* lines have been printed (one per completed pair), print_this_row tells
\* whether a row waits for its partner, and row_buffer is solid again after
\* every completed pair; when the renderer returns for an odd number n of
\* rows, the last row is printed alone as data line ceil(n/2), each cell the
\* glyph of its module above a light one.
C8_PairwiseRows ==
    /\ pc = "manual_rows" =>
        LET p == idx - 1 IN
        /\ Len(Rendered) = 2 + p \div 2
        /\ print_this_row = (p % 2 = 1)
        /\ (p % 2 = 0) => row_buffer = Repeat(FULL, Len(qrc[1]))
    /\ ManualReturned =>
        LET n == Len(qrc) IN
        /\ Len(Rendered) = 2 + CeilHalf(n) + 2
        /\ (n % 2 = 1) =>
            \A c \in 1..Len(qrc[1]) :
                Rendered[2 + CeilHalf(n)][2 + c] =
                    IF c <= Len(qrc[n]) THEN HalfGlyph(qrc[n][c], 0) ELSE FULL

\* C8's case: a returned rendering of three rows, the last one holding a dark
\* module: one pair and one unpaired row.
C8_Witness ==
    /\ ManualReturned /\ Len(qrc) = 3
    /\ \E c \in 1..Min(Len(qrc[1]), Len(qrc[3])) : qrc[3][c] = 1

\* A line of character cells (a renderer's), the empty line included.
IsGlyphLine(l) == \A i \in 1..Len(l) : l[i] \in {FULL, UPPER, LOWER, SPACE}

\* The offsets of the code lines of a run, in the order claim C7 gives.
Offsets == IF args.extra_codes THEN <<-60, -30, 0, 30, 60>> ELSE <<0>>

\* The instants at which the clock can be read during a run.
Instants == StartTime..(StartTime + MaxTicks)

\* C7: when main returns 0, stdout holds the seed line, then one code line per
\* offset -60, -30, 0, +30, +60 in this order with extra_codes (five lines)
\* and the single line of offset 0 without, each for the clock's reading at
\* its call plus the offset, the readings in order; and after them nothing
\* but the lines of the QR rendering, which are there exactly with draw.
C7_CodeOrder ==
    (entry = "main" /\ pc = "done" /\ ret = "0") =>
        LET n == Len(Offsets) IN
        /\ Len(out) >= 1 + n
        /\ out[1] = SeedLine(totp_key)
        /\ \E t \in [1..n -> Instants] :
            /\ \A i \in 1..n : \A j \in i..n : t[i] <= t[j]
            /\ \A i \in 1..n : out[1 + i] = CodeLine(totp_key, t[i] + Offsets[i])
        /\ \A i \in (n + 2)..Len(out) : IsGlyphLine(out[i])
        /\ args.draw <=> Len(out) > 1 + n

\* C7's case: a run of main with extra_codes and draw that returned 0, the
\* clock having advanced between two codes.
C7_Witness ==
    /\ entry = "main" /\ pc = "done" /\ ret = "0"
    /\ args.extra_codes /\ args.draw
    /\ now > StartTime

\* A step of handle_message: it prints its line.
Handled == Len(out') = Len(out) + 1

\* The timer is running: started and not stopped.
Running == STOPWATCH_START # None /\ STOPWATCH_END = None

\* C9: STOPWATCH_END is set only if STOPWATCH_START is; a START sets
\* STOPWATCH_START and clears STOPWATCH_END; STOPWATCH_END is set or changed
\* only by a STOP received while the timer is running.
C9_StopwatchState ==
    /\ [](STOPWATCH_END # None => STOPWATCH_START # None)
    /\ [][(Handled /\ msg'.message = "START") =>
            (STOPWATCH_START' = now /\ STOPWATCH_START' # None /\ STOPWATCH_END' = None)]_vars
    /\ [][(STOPWATCH_END' # STOPWATCH_END /\ STOPWATCH_END' # None) =>
            (Handled /\ msg'.message = "STOP" /\ Running)]_vars

\* C9's case: the timer was started, stopped by a STOP, and a later STOP
\* came in.
C9_Witness ==
    /\ STOPWATCH_END # None
    /\ Len(sent) = 3
    /\ msg.message = "STOP"
    /\ sent[3].body = <<"The timer is already stopped! Say \"START\" to reset.">>

\* C10: a STOP received when the timer is not running, a TIME and an
\* unrecognised message leave STOPWATCH_START and STOPWATCH_END unchanged, and
\* every handled message makes exactly one send_sms request, to its sender.
C10_FrameAndReply ==
    [][Handled =>
        /\ (\/ msg'.message = "STOP" /\ ~Running
            \/ msg'.message \notin {"START", "STOP"})
           => UNCHANGED <<STOPWATCH_START, STOPWATCH_END>>
        /\ Len(sent') = Len(sent) + 1
        /\ SubSeq(sent', 1, Len(sent)) = sent
        /\ sent'[Len(sent')].to = msg'.senderAddress]_vars

\* C10's case: a TIME, a HELLO and a STOP while the timer was not running
\* have been answered, one reply each, with the timer never started.
C10_Witness ==
    /\ Len(sent) = 3 /\ Len(out) = 3
    /\ STOPWATCH_START = None
    /\ {sent[i].body : i \in 1..3} =
        {<<"The timer isn't running! Say \"START\" first.">>,
         <<"The timer wasn't running! Say \"START\" first.">>,
         <<"Sorry! I only understand \"START\", \"STOP\" and \"TIME\" exactly.">>}

====
